---- MODULE Spec2Model ----
(***************************************************************************)
(* Model of the two stateful views of financeApp:                          *)
(*   - ChatBot  (src/app/(tabs)/explore.tsx): the conversation engine      *)
(*   - App      (src/app/(tabs)/index.tsx):   the company data loader      *)
(* The two components share no state.  ChatSpec runs the conversation      *)
(* engine, LoaderSpec runs the data loader.                                *)
(*                                                                         *)
(* A text is a sequence of chunks; a chunk is either one whitespace        *)
(* character or a run of non-whitespace characters.  An optional value     *)
(* (null, undefined, a missing JSON field) is a sequence of length 0 or 1. *)
(***************************************************************************)
EXTENDS Integers, Sequences, FiniteSets, TLC

VARIABLES
    \* ---- ChatBot (explore.tsx) ----
    messages,       \* useState<ChatMessage[]>            explore.tsx:85
    inputText,      \* useState('')                       explore.tsx:86
    isLoading,      \* useState(false)                    explore.tsx:87
    rendered,       \* the values the current sendMessage closure captured
    requests,       \* chat requests in flight (fetch issued, not settled)
    now,            \* last value returned by Date.now()
    unhandled,      \* TRUE once a sendMessage() promise has rejected
    last,           \* the last ChatBot step
    \* ---- App (index.tsx) ----
    selectedCompany,    \* index.tsx:120
    companyDetails,     \* index.tsx:121
    companyImage,       \* index.tsx:122
    isDropdownVisible,  \* index.tsx:123
    appIsLoading,       \* isLoading of App, index.tsx:124
    error,              \* index.tsx:125
    loads,              \* every loadCompanyData() call started so far
    alerts,             \* number of Alert.alert calls
    lastApp             \* the last App step and the state it started from

chatVars == <<messages, inputText, isLoading, rendered, requests, now,
              unhandled, last>>
appVars  == <<selectedCompany, companyDetails, companyImage,
              isDropdownVisible, appIsLoading, error, loads, alerts, lastApp>>
vars     == <<chatVars, appVars>>

\* ------------------------------------------------------------------ bounds
MaxLog   == 5      \* longest message log explored
MaxClock == 1      \* largest Date.now() reading explored
MaxLoads == 2      \* loadCompanyData() calls explored
NumCompanies == 2  \* how many entries of COMPANIES are explored

\* ---------------------------------------------------------------- optionals
None    == <<>>
Some(x) == <<x>>
IsSome(o) == Len(o) = 1
Get(o)  == o[1]

\* -------------------------------------------------------------------- texts
IsSpace(c) == c \in {" ", "\n", "\t"}

RECURSIVE TrimStart(_)
TrimStart(s) ==
    IF s = <<>> THEN <<>>
    ELSE IF IsSpace(Head(s)) THEN TrimStart(Tail(s)) ELSE s

RECURSIVE TrimEnd(_)
TrimEnd(s) ==
    IF s = <<>> THEN <<>>
    ELSE IF IsSpace(s[Len(s)]) THEN TrimEnd(SubSeq(s, 1, Len(s) - 1)) ELSE s

\* String.prototype.trim
Trim(s) == TrimEnd(TrimStart(s))

\* a JavaScript string is truthy iff it is not empty
Truthy(s) == s # <<>>

\* what the user may type into the TextInput
InputTexts == { <<>>, <<" ">>, <<" ", "hi", "\n">>, <<"a", " ", "b">> }

\* ======================================================================
\* ChatBot: the conversation engine                 src/app/(tabs)/explore.tsx
\* ======================================================================

\* ---- the Chat Transport's possible answers to one POST ----
\* kind "reject": fetch() rejects (network failure); isError says whether the
\*                rejection value is an Error instance, reason is its message.
\* kind "http":   fetch() resolves with a Response of the given status whose
\*                body is not JSON ("invalid"), is JSON null ("null") or is a
\*                JSON object ("object", data).
NoData == [candidates |-> None]
Part(t) == [text |-> t]
Candidate(parts) == [content |-> Some([parts |-> parts])]
DataWithText(t) == [candidates |-> Some(<< Candidate(Some(<< Part(t) >>)) >>)]

Datas ==
    { NoData,                                            \* {}
      [candidates |-> Some(<<>>)],                       \* {candidates: []}
      [candidates |-> Some(<< [content |-> None] >>)],   \* no content
      [candidates |-> Some(<< Candidate(None) >>)],      \* no parts
      [candidates |-> Some(<< Candidate(Some(<<>>)) >>)],\* parts: []
      DataWithText(None),                                \* no text
      DataWithText(Some(<<>>)),                          \* text: ""
      DataWithText(Some(<<" ">>)),                       \* text: " "
      DataWithText(Some(<<"120.50">>)),
      DataWithText(Some(<<"\n", "ok", " ">>)) }

Reject(isErr, reason) ==
    [kind |-> "reject", isError |-> isErr, reason |-> reason,
     status |-> 0, json |-> "invalid", data |-> NoData]
Http(status, json, data) ==
    [kind |-> "http", isError |-> FALSE, reason |-> <<>>,
     status |-> status, json |-> json, data |-> data]

Responses ==
    { Reject(TRUE, <<"Network", " ", "request", " ", "failed">>),
      Reject(FALSE, <<>>) }
    \cup { Http(st, "invalid", NoData) : st \in {200, 500} }
    \cup { Http(200, "null", NoData) }
    \cup { Http(200, "object", d) : d \in Datas }

\* Response.ok
ResponseOk(resp) == resp.status >= 200 /\ resp.status <= 299

\* data.candidates?.[0]?.content?.parts?.[0]?.text          explore.tsx:132
ExtractText(data) ==
    IF ~IsSome(data.candidates) \/ Get(data.candidates) = <<>> THEN None
    ELSE LET content == Get(data.candidates)[1].content IN
         IF ~IsSome(content) THEN None
         ELSE LET parts == Get(content).parts IN
              IF ~IsSome(parts) \/ Get(parts) = <<>> THEN None
              ELSE Get(parts)[1].text

\* a thrown value / a normal return of the try block
Throw(isErr, reason) == [threw |-> TRUE, isError |-> isErr, text |-> reason]
Return(text)         == [threw |-> FALSE, isError |-> FALSE, text |-> text]

\* the validity check of the reply                     explore.tsx:132
ValidText(t) == IsSome(t) /\ Truthy(Get(t))

\* variant of TryBody without the `if (!response.ok)` check
TryBodyNoStatusCheck(resp) ==
    IF resp.kind = "reject" THEN Throw(resp.isError, resp.reason)
    ELSE IF resp.json = "invalid" THEN
        Throw(TRUE, <<"JSON", " ", "Parse", " ", "error">>)
    ELSE IF resp.json = "null" THEN
        Throw(TRUE, <<"Cannot", " ", "read", " ", "property", " ",
                      "'candidates'", " ", "of", " ", "null">>)
    ELSE IF ~ValidText(ExtractText(resp.data)) THEN
        Throw(TRUE, <<"Invalid", " ", "response", " ", "format", " ",
                      "from", " ", "server">>)
    ELSE Return(Trim(Get(ExtractText(resp.data))))

\* the try block after the fetch settles               explore.tsx:115-141
\* returns the text of botMessage, or what was thrown
TryBody(resp) ==
    IF resp.kind = "reject" THEN Throw(resp.isError, resp.reason)
    ELSE IF ~ResponseOk(resp) THEN
        Throw(TRUE, <<"HTTP", " ", "error!", " ", "status:", " ",
                      ToString(resp.status)>>)
    ELSE IF resp.json = "invalid" THEN
        Throw(TRUE, <<"JSON", " ", "Parse", " ", "error">>)
    ELSE IF resp.json = "null" THEN
        Throw(TRUE, <<"Cannot", " ", "read", " ", "property", " ",
                      "'candidates'", " ", "of", " ", "null">>)
    ELSE IF ~ValidText(ExtractText(resp.data)) THEN
        Throw(TRUE, <<"Invalid", " ", "response", " ", "format", " ",
                      "from", " ", "server">>)
    ELSE Return(Trim(Get(ExtractText(resp.data))))

\* variant of Catches that lets a value that is no Error escape
CatchesOnlyErrors(thrown) == thrown.isError
\* `catch (error)` catches every thrown value            explore.tsx:144
Catches(thrown) == TRUE

\* error instanceof Error ? error.message : 'Unknown error'   explore.tsx:149
ErrorReason(thrown) ==
    IF thrown.isError THEN thrown.text ELSE <<"Unknown", " ", "error">>

ErrorPrefix == <<"Sorry,", " ", "I", " ", "encountered", " ", "an", " ", "error:", " ">>
ErrorSuffix == <<".", " ", "Please", " ", "try", " ", "again.">>

\* ---- message construction ----
\* A ChatMessage is [sender, message, id].  Its timestamp (a second
\* Date.now() reading, read only by MessageBubble to print the time) is not
\* part of the model; t is the Date.now() reading the id is made from.
\* explore.tsx:93-98
UserMessage(text, t) ==
    [sender |-> "user", message |-> Trim(text), id |-> ToString(t)]

\* explore.tsx:136-141
BotMessage(text, t) ==
    [sender |-> "bot", message |-> text, id |-> ToString(t + 1)]

\* explore.tsx:147-152
ErrorMessage(thrown, t) ==
    [sender |-> "bot",
     message |-> ErrorPrefix \o ErrorReason(thrown) \o ErrorSuffix,
     id |-> ToString(t + 1)]

\* explore.tsx:168-173
welcomeMessage ==
    [sender |-> "bot",
     message |-> <<"How", " ", "can", " ", "I", " ", "help", " ", "you", " ", "today?">>,
     id |-> "welcome"]

\* messages.map(({ sender, message }) => ({ sender, message }))  explore.tsx:107-110
HistoryPayload(msgs) ==
    [i \in 1..Len(msgs) |-> [sender |-> msgs[i].sender, message |-> msgs[i].message]]

\* variant of ApiRequest whose history includes this turn's user message
ApiRequestWithTurn(userMessage, msgs) ==
    [message |-> userMessage.message,
     history |-> HistoryPayload(Append(msgs, userMessage))]
\* explore.tsx:105-111; msgs is the `messages` the closure captured
ApiRequest(userMessage, msgs) ==
    [message |-> userMessage.message, history |-> HistoryPayload(msgs)]

\* variant of AppendMessage that puts the new message first
PrependMessage(prev, m) == <<m>> \o prev
\* setMessages(prev => [...prev, m]): the functional update of the log
\*                                               explore.tsx:100, 143, 154
AppendMessage(prev, m) == Append(prev, m)

\* variants of CanSend: without the isLoading test, without the trim
CanSendIgnoringLoading(text, loading) == Truthy(Trim(text))
CanSendUntrimmed(text, loading) == Truthy(text) /\ ~loading
\* the guard of sendMessage: if (!inputText.trim() || isLoading) return
\*                                                        explore.tsx:91
CanSend(text, loading) == ~(~Truthy(Trim(text)) \/ loading)

\* the state a render of ChatBot captures in sendMessage  explore.tsx:158
Snapshot(msgs, text, loading) ==
    [messages |-> msgs, inputText |-> text, isLoading |-> loading]

State == Snapshot(messages, inputText, isLoading)

\* variant of FlushSync for a sendMessage memoised without its dependencies
FlushNothing(old, new) == old
\* sendMessage is re-created when inputText, messages or isLoading change
\* (explore.tsx:158), and React commits the updates of a press handler
\* before it dispatches the next event: the next handler closes over them.
FlushSync(old, new) == new

\* variant of Finally: setIsLoading(false) at the end of the try block only
FinallyOnlyOnSuccess(threw) == threw
\* `finally { setIsLoading(false) }`: the new isLoading  explore.tsx:155-157
Finally(threw) == FALSE

\* which handler took the last step, whether its guard let it through, and
\* (for "settle") the transport's answer it handled
NoResponse == Reject(FALSE, <<>>)
ChatStep(op, accepted, resp) == [op |-> op, accepted |-> accepted, resp |-> resp]

\* ---- sendMessage, up to its await                      explore.tsx:90-122
\* runs with the values its closure captured (rendered), updates the state
sendMessage ==
    IF ~CanSend(rendered.inputText, rendered.isLoading)
    THEN /\ last' = ChatStep("send", FALSE, NoResponse)
         /\ UNCHANGED <<messages, inputText, isLoading, rendered, requests,
                        now, unhandled>>
    ELSE /\ Len(messages) + 2 <= MaxLog
         /\ \E t \in now..MaxClock :
              LET userMessage == UserMessage(rendered.inputText, t) IN
              /\ messages' = AppendMessage(messages, userMessage)
              /\ inputText' = <<>>
              /\ isLoading' = TRUE
              /\ requests' = Append(requests,
                                    ApiRequest(userMessage, rendered.messages))
              /\ now' = t
         /\ rendered' = FlushSync(rendered,
                                  Snapshot(messages', inputText', isLoading'))
         /\ last' = ChatStep("send", TRUE, NoResponse)
         /\ UNCHANGED unhandled

\* ---- onChangeText={setInputText}                       explore.tsx:202
onChangeText(text) ==
    /\ text # inputText
    /\ inputText' = text
    /\ \/ rendered' = [rendered EXCEPT !.inputText = text]
       \/ rendered' = Snapshot(messages, text, isLoading)
    /\ last' = ChatStep("input", TRUE, NoResponse)
    /\ UNCHANGED <<messages, isLoading, requests, now, unhandled>>

\* ---- the rest of sendMessage, once request i has settled with resp
\*                                                        explore.tsx:124-157
fetchSettles(i, resp) ==
    /\ i \in 1..Len(requests)
    /\ LET r == TryBody(resp) IN
       /\ \E t \in now..MaxClock :
            /\ now' = t
            /\ messages' =
                 IF ~r.threw THEN AppendMessage(messages, BotMessage(r.text, t))
                 ELSE IF Catches(r)
                      THEN AppendMessage(messages, ErrorMessage(r, t))
                      ELSE messages
       /\ unhandled' = (unhandled \/ (r.threw /\ ~Catches(r)))
       /\ isLoading' = Finally(r.threw)
    /\ requests' = SubSeq(requests, 1, i - 1)
                     \o SubSeq(requests, i + 1, Len(requests))
    /\ \/ rendered' = rendered
       \/ rendered' = Snapshot(messages', inputText, isLoading')
    /\ last' = ChatStep("settle", TRUE, resp)
    /\ UNCHANGED inputText

\* ---- a re-render of ChatBot that was still outstanding
render ==
    /\ rendered # State
    /\ rendered' = State
    /\ last' = ChatStep("render", TRUE, NoResponse)
    /\ UNCHANGED <<messages, inputText, isLoading, requests, now, unhandled>>

ChatInit ==
    /\ messages = << welcomeMessage >>        \* after the mount effect, :167-175
    /\ inputText = <<>>
    /\ isLoading = FALSE
    /\ rendered = Snapshot(<< welcomeMessage >>, <<>>, FALSE)
    /\ requests = <<>>
    /\ now = 0
    /\ unhandled = FALSE
    /\ last = ChatStep("init", TRUE, NoResponse)

\* ======================================================================
\* App: the company data loader                      src/app/(tabs)/index.tsx
\* ======================================================================
API_BASE_URL == "https://hcibackend.onrender.com"
AllCompanies == << "AAPL", "GOOG", "MSFT", "AMZN", "META",
                   "TSLA", "NFLX", "ADBE", "INTC", "DELL" >>
\* the part of the enumeration the model explores
COMPANIES == SubSeq(AllCompanies, 1, NumCompanies)
Company == { COMPANIES[i] : i \in 1..Len(COMPANIES) }

\* FileSystem.cacheDirectory
cacheDirectory == "file:///cache/"

\* index.tsx:150
DetailsUrl(company) == API_BASE_URL \o "/stockDetails/" \o company
\* index.tsx:159
ImageUrl(company) == API_BASE_URL \o "/stockGraph/" \o company
\* variant of FileName with one cache file for every company
FileNameShared(company) == cacheDirectory \o "company.jpg"
\* index.tsx:160
FileName(company) == cacheDirectory \o company \o ".jpg"

\* ---- what the Data Transport may answer ----
\* details endpoint: fetch() rejects, or resolves with a Response
DetailsResponses ==
    { [kind |-> "reject", ok |-> FALSE, statusText |-> "", json |-> "invalid"],
      [kind |-> "http", ok |-> FALSE, statusText |-> "Internal Server Error",
       json |-> "object"],
      [kind |-> "http", ok |-> TRUE, statusText |-> "OK", json |-> "invalid"],
      [kind |-> "http", ok |-> TRUE, statusText |-> "OK", json |-> "object"] }
\* image endpoint: FileSystem.downloadAsync resolves once the body is
\* written to the cache file (whatever the HTTP status), or rejects
ImageResponses ==
    { [kind |-> "resolve", isError |-> FALSE, message |-> ""],
      [kind |-> "reject", isError |-> TRUE, message |-> "Unable to download file"],
      \* a rejection value that is no Error instance
      [kind |-> "reject", isError |-> FALSE, message |-> ""] }

AppThrow(isErr, message) == [threw |-> TRUE, isError |-> isErr, message |-> message]
AppReturn == [threw |-> FALSE, isError |-> FALSE, message |-> ""]

\* fetchCompanyDetails after its fetch settled: what it throws, if anything
\*                                                       index.tsx:149-156
fetchCompanyDetails(resp) ==
    IF resp.kind = "reject" THEN AppThrow(TRUE, "Network request failed")
    ELSE IF ~resp.ok THEN
        AppThrow(TRUE, "Failed to fetch company details: " \o resp.statusText)
    ELSE IF resp.json = "invalid" THEN AppThrow(TRUE, "JSON Parse error")
    ELSE AppReturn

\* fetchCompanyImage after downloadAsync settled          index.tsx:158-163
fetchCompanyImage(resp) ==
    IF resp.kind = "reject" THEN AppThrow(resp.isError, resp.message)
    ELSE AppReturn

\* the JSON the details endpoint serves at url; the uri of a downloaded file
DetailsData(url) == [source |-> url]

\* variant of errorMessage without the instanceof test
ErrorMessageUnchecked(thrown) == thrown.message
\* err instanceof Error ? err.message : 'An error occurred'   index.tsx:141
errorMessage(thrown) ==
    IF thrown.isError THEN thrown.message ELSE "An error occurred"

\* variant of ErrorAtLoadStart without the setError(null)
ErrorKept(err) == err
\* setError(null) at the start of loadCompanyData         index.tsx:133
ErrorAtLoadStart(err) == None

\* one call of loadCompanyData, with the selectedCompany its closure captured
NewLoad(company) ==
    [company |-> company,
     detailsUrl |-> DetailsUrl(company),
     imageUrl |-> ImageUrl(company),
     fileName |-> FileName(company),
     details |-> "pending",      \* fetchCompanyDetails(): pending / ok / fail
     image |-> "pending",        \* fetchCompanyImage():   pending / ok / fail
     joined |-> FALSE,           \* Promise.all settled, catch/finally have run
     cleared |-> 0]              \* times the finally block has run (:145)

\* variant of EffectRuns for an effect without its dependency array
EffectRunsAlways(prev, next) == TRUE
\* useEffect(..., [selectedCompany]): after the mount the effect runs again
\* only when selectedCompany changed                     index.tsx:127-129
EffectRuns(prev, next) == prev # next

\* variants of Joins: the catch/finally blocks run at every settling that
\* fails or completes the pair; the join waits until both have settled
JoinsAgain(joined, threw, other) == threw \/ other = "ok"
JoinsWhenBothSettled(joined, threw, other) == ~joined /\ other # "pending"
\* await Promise.all([...]) in try/catch/finally        index.tsx:135-146
\* Promise.all rejects at the first rejection and resolves once both
\* promises have resolved; the catch and finally blocks of loadCompanyData
\* run in the step in which it settles.  joined: it had settled before;
\* threw: the fetch settling now failed; other: the state of the other fetch
Joins(joined, threw, other) == ~joined /\ (threw \/ other = "ok")

\* the last App step: its handler, the load it belongs to, and whether it
\* started a load (select) / settled the load's Promise.all (details, image)
AppStep(op, load, flag) == [op |-> op, load |-> load, flag |-> flag]

\* ---- onPress of the dropdown button / onClose of the modal  index.tsx:177,186
openDropdown ==
    /\ ~isDropdownVisible
    /\ isDropdownVisible' = TRUE
    /\ lastApp' = AppStep("open", 0, FALSE)
    /\ UNCHANGED <<selectedCompany, companyDetails, companyImage,
                   appIsLoading, error, loads, alerts>>

closeDropdown ==
    /\ isDropdownVisible
    /\ isDropdownVisible' = FALSE
    /\ lastApp' = AppStep("close", 0, FALSE)
    /\ UNCHANGED <<selectedCompany, companyDetails, companyImage,
                   appIsLoading, error, loads, alerts>>

\* ---- handleCompanySelect, and the effect its re-render runs
\*                                         index.tsx:165-168, 127-129, 131-139
\* The effect depends on [selectedCompany]: it calls loadCompanyData only
\* when the value changed.  loadCompanyData runs up to its await.
handleCompanySelect(company) ==
    /\ isDropdownVisible
    /\ selectedCompany' = company
    /\ isDropdownVisible' = FALSE
    /\ IF EffectRuns(selectedCompany, company)
       THEN /\ Len(loads) < MaxLoads
            /\ appIsLoading' = TRUE
            /\ error' = ErrorAtLoadStart(error)
            /\ loads' = Append(loads, NewLoad(company))
            /\ lastApp' = AppStep("select", Len(loads) + 1, TRUE)
       ELSE /\ UNCHANGED <<appIsLoading, error, loads>>
            /\ lastApp' = AppStep("select", Len(loads), FALSE)
    /\ UNCHANGED <<companyDetails, companyImage, alerts>>

\* ---- the details fetch of a load settles                index.tsx:150-155
detailsSettles(load, resp) ==
    /\ load \in 1..Len(loads)
    /\ loads[load].details = "pending"
    /\ LET r == fetchCompanyDetails(resp)
           l == [loads[load] EXCEPT !.details = IF r.threw THEN "fail" ELSE "ok"]
           joins == Joins(l.joined, r.threw, l.image) IN
       /\ companyDetails' =
            IF r.threw THEN companyDetails
            ELSE Some(DetailsData(l.detailsUrl))
       /\ IF joins
          THEN /\ loads' = [loads EXCEPT ![load] =
                              [l EXCEPT !.joined = TRUE,
                                        !.cleared = l.cleared + 1]]
               /\ error' = IF r.threw THEN Some(errorMessage(r)) ELSE error
               /\ alerts' = IF r.threw THEN alerts + 1 ELSE alerts
               /\ appIsLoading' = FALSE
          ELSE /\ loads' = [loads EXCEPT ![load] = l]
               /\ UNCHANGED <<error, alerts, appIsLoading>>
       /\ lastApp' = AppStep("details", load, joins)
    /\ UNCHANGED <<selectedCompany, companyImage, isDropdownVisible>>

\* ---- the image download of a load settles               index.tsx:161-162
imageSettles(load, resp) ==
    /\ load \in 1..Len(loads)
    /\ loads[load].image = "pending"
    /\ LET r == fetchCompanyImage(resp)
           l == [loads[load] EXCEPT !.image = IF r.threw THEN "fail" ELSE "ok"]
           joins == Joins(l.joined, r.threw, l.details) IN
       /\ companyImage' =
            IF r.threw THEN companyImage ELSE Some(l.fileName)
       /\ IF joins
          THEN /\ loads' = [loads EXCEPT ![load] =
                              [l EXCEPT !.joined = TRUE,
                                        !.cleared = l.cleared + 1]]
               /\ error' = IF r.threw THEN Some(errorMessage(r)) ELSE error
               /\ alerts' = IF r.threw THEN alerts + 1 ELSE alerts
               /\ appIsLoading' = FALSE
          ELSE /\ loads' = [loads EXCEPT ![load] = l]
               /\ UNCHANGED <<error, alerts, appIsLoading>>
       /\ lastApp' = AppStep("image", load, joins)
    /\ UNCHANGED <<selectedCompany, companyDetails, isDropdownVisible>>

\* the state after App has mounted: the initial values of its useState
\* hooks (index.tsx:120-125) and the mount run of the effect (:127-133)
AppInit ==
    /\ selectedCompany = COMPANIES[1]
    /\ companyDetails = None
    /\ companyImage = None
    /\ isDropdownVisible = FALSE
    /\ appIsLoading = TRUE
    /\ error = None
    /\ loads = << NewLoad(COMPANIES[1]) >>
    /\ alerts = 0
    /\ lastApp = AppStep("mount", 1, TRUE)

Init == ChatInit /\ AppInit

ChatNext ==
    \/ sendMessage /\ UNCHANGED appVars
    \/ \E text \in InputTexts : onChangeText(text) /\ UNCHANGED appVars
    \/ \E i \in 1..Len(requests) : \E resp \in Responses :
          fetchSettles(i, resp) /\ UNCHANGED appVars
    \/ render /\ UNCHANGED appVars

ChatSpec == Init /\ [][ChatNext]_vars

LoaderNext ==
    \/ openDropdown /\ UNCHANGED chatVars
    \/ closeDropdown /\ UNCHANGED chatVars
    \/ \E company \in Company :
          handleCompanySelect(company) /\ UNCHANGED chatVars
    \/ \E load \in 1..Len(loads) : \E resp \in DetailsResponses :
          detailsSettles(load, resp) /\ UNCHANGED chatVars
    \/ \E load \in 1..Len(loads) : \E resp \in ImageResponses :
          imageSettles(load, resp) /\ UNCHANGED chatVars

LoaderSpec == Init /\ [][LoaderNext]_vars

\* The Chat Transport answers every request it was sent (with a reply or a
\* failure): a request in flight eventually settles.
Settles ==
    /\ \E i \in 1..Len(requests) : \E resp \in Responses : fetchSettles(i, resp)
    /\ UNCHANGED appVars
ChatFairSpec == ChatSpec /\ WF_vars(Settles)

\* ----------------------------------------------------------------------
\* Properties of the conversation engine
\* ----------------------------------------------------------------------
SendStep     == last'.op = "send"
AcceptedSend == last'.op = "send" /\ last'.accepted
SettleStep   == last'.op = "settle"
IsPrefixOf(s, t) == Len(s) <= Len(t) /\ SubSeq(t, 1, Len(s)) = s
LastOf(s) == s[Len(s)]

\* C2: in every reachable state at most one chat request is in flight, and
\* pending (isLoading) is true exactly while one request is in flight.
C2_AtMostOneInFlight ==
    /\ Len(requests) <= 1
    /\ isLoading <=> (Len(requests) = 1)

\* a second turn's request in flight, with a further text already typed
C2_Witness ==
    /\ Len(requests) = 1 /\ isLoading /\ Len(messages) = 4
    /\ Truthy(Trim(inputText))

\* C3: a submit invoked while pending is true is a no-op: the log and pending
\* are unchanged and no transport request is issued.
C3_SubmitWhilePendingNoOp ==
    [][ (SendStep /\ isLoading) =>
            /\ messages' = messages
            /\ isLoading' = isLoading
            /\ requests' = requests ]_vars

\* sendMessage has just been invoked with a sendable text while pending
C3_Witness ==
    /\ last.op = "send" /\ ~last.accepted
    /\ isLoading /\ Truthy(Trim(inputText))

\* C4: an accepted submit appends the user message carrying the trimmed
\* text; the settling of its request appends exactly one bot message right
\* after that user message, whatever the transport answered; nothing else
\* touches the log.
C4_TwoMessagesPerTurn ==
    [][ /\ AcceptedSend =>
              /\ messages' = Append(messages, LastOf(messages'))
              /\ LastOf(messages').sender = "user"
              /\ LastOf(messages').message = Trim(inputText)
        /\ SettleStep =>
              /\ messages' = Append(messages, LastOf(messages'))
              /\ LastOf(messages').sender = "bot"
              /\ LastOf(messages).sender = "user"
        /\ ~(AcceptedSend \/ SettleStep) => messages' = messages ]_vars

\* a turn answered by a rejection that is no Error instance is complete
C4_Witness ==
    /\ last.op = "settle" /\ last.resp = Reject(FALSE, <<>>)
    /\ Len(messages) = 3
    /\ messages[2].sender = "user" /\ messages[3].sender = "bot"

\* C5: every accepted submit sets pending to true, and pending is
\* eventually false again, on the success path and on every failure path.
C5_PendingEventuallyCleared ==
    /\ [][ AcceptedSend => isLoading' ]_vars
    /\ (isLoading ~> ~isLoading)

\* pending has been cleared after a non-2xx answer
C5_Witness ==
    /\ last.op = "settle" /\ last.resp.kind = "http" /\ last.resp.status = 500
    /\ ~isLoading

\* C6: a submit whose text is empty or whitespace only is a no-op: log,
\* pending and input buffer are unchanged and no request is issued.
C6_BlankSubmitNoOp ==
    [][ (SendStep /\ ~Truthy(Trim(inputText))) =>
            /\ messages' = messages
            /\ isLoading' = isLoading
            /\ inputText' = inputText
            /\ requests' = requests ]_vars

\* sendMessage has just been invoked with a whitespace-only text, not pending
C6_Witness ==
    /\ last.op = "send" /\ ~last.accepted
    /\ ~isLoading /\ inputText = <<" ">>

\* C7: the request built by an accepted submit has the trimmed submitted
\* text as message and, as history, the (sender, message) pairs of the log as
\* it stood before the submit, in order, without this turn's user message.
C7_RequestCarriesPriorHistory ==
    [][ AcceptedSend =>
          /\ Len(requests') = Len(requests) + 1
          /\ LET req == LastOf(requests') IN
               /\ req.message = Trim(inputText)
               /\ Len(req.history) = Len(messages)
               /\ \A j \in 1..Len(messages) :
                     req.history[j] = [sender |-> messages[j].sender,
                                       message |-> messages[j].message] ]_vars

\* the second turn's request: its history holds welcome, user, bot
C7_Witness ==
    /\ last.op = "send" /\ last.accepted
    /\ Len(requests) = 1 /\ Len(requests[1].history) = 3
    /\ requests[1].history[2].sender = "user"

\* C8: every failed submit is recovered locally.  After a request settled
\* with a network error, a non-2xx status or a payload lacking
\* candidates[0].content.parts[0].text, the log ends with a bot message
\* whose text is the fixed wrapper around the reason (the invalid-response
\* reason; a reason ending in the status code; the rejection's message), and
\* no sendMessage promise has ever rejected.
InvalidFormatReason ==
    <<"Invalid", " ", "response", " ", "format", " ", "from", " ", "server">>
Wrapped(reason) == ErrorPrefix \o reason \o ErrorSuffix
Unwrapped(text) ==
    SubSeq(text, Len(ErrorPrefix) + 1, Len(text) - Len(ErrorSuffix))
C8_FailuresRecoveredLocally ==
    /\ ~unhandled
    /\ last.op = "settle" =>
         LET resp == last.resp
             m == LastOf(messages) IN
         /\ resp.kind = "reject" =>
               /\ m.sender = "bot" /\ m.message # <<>>
               /\ m.message = Wrapped(Unwrapped(m.message))
               /\ resp.isError => Unwrapped(m.message) = resp.reason
         /\ (resp.kind = "http" /\ ~(resp.status \in 200..299)) =>
               /\ m.sender = "bot" /\ m.message # <<>>
               /\ m.message = Wrapped(Unwrapped(m.message))
               /\ LastOf(Unwrapped(m.message)) = ToString(resp.status)
         /\ (resp.kind = "http" /\ resp.status \in 200..299
               /\ resp.json = "object" /\ ExtractText(resp.data) = None) =>
               /\ m.sender = "bot" /\ m.message # <<>>
               /\ m.message = Wrapped(InvalidFormatReason)

\* a 2xx answer whose only candidate has no text has been handled
C8_Witness ==
    /\ last.op = "settle"
    /\ last.resp = Http(200, "object", DataWithText(None))
    /\ LastOf(messages).sender = "bot"

\* ----------------------------------------------------------------------
\* Properties of the company data loader
\* ----------------------------------------------------------------------
\* the step is the settling of a fetch of load l
FetchSettlesOf(l) == lastApp'.op \in {"details", "image"} /\ lastApp'.load = l
\* the step is a select that started a load
SelectStartsLoad == lastApp'.op = "select" /\ lastApp'.flag
\* load l has been superseded by a later select
Superseded(l) == l < Len(loads)
SettledLoad(l) == loads[l].details # "pending" /\ loads[l].image # "pending"

\* C1: stale-write rejection.  Once a later select has superseded a load,
\* the settling of that load's fetches, in whatever order, leaves the current
\* entity in place and writes nothing into the selection state: not its
\* details, not its artifact path, not its error, not loading = false.
C1_StaleWriteRejected ==
    [][ \A l \in 1..Len(loads) :
          (FetchSettlesOf(l) /\ Superseded(l)) =>
              /\ selectedCompany' = LastOf(loads).company
              /\ UNCHANGED <<companyDetails, companyImage, error,
                             appIsLoading>> ]_vars

C10_AllOrNothing ==
    (SettledLoad(Len(loads))
       /\ "fail" \in {LastOf(loads).details, LastOf(loads).image}) =>
        /\ IsSome(error) /\ Get(error) # ""
        /\ ~appIsLoading
        /\ companyDetails = None
        /\ companyImage = None

\* C10 amended: the first failure of a load's fetches sets error to a
\* non-empty reason and loading to false in that step, and leaves details and
\* artifact path untouched; a fetch of the load that succeeds, before or
\* after that failure, stores its result.
C10_FailureSetsErrorKeepsResults ==
    [][ \A l \in 1..Len(loads) :
          FetchSettlesOf(l) =>
            LET failed == "fail" \in {loads'[l].details, loads'[l].image}
                first  == "fail" \notin {loads[l].details, loads[l].image} IN
            /\ (failed /\ first) =>
                  /\ IsSome(error') /\ Get(error') # ""
                  /\ ~appIsLoading'
                  /\ UNCHANGED <<companyDetails, companyImage>>
            /\ (loads[l].details = "pending" /\ loads'[l].details = "ok") =>
                  companyDetails' = Some([source |-> DetailsUrl(loads[l].company)])
            /\ (loads[l].image = "pending" /\ loads'[l].image = "ok") =>
                  companyImage' = Some(FileName(loads[l].company)) ]_vars

\* the details of the only load arrived after its image download had failed:
\* the state holds the error and the details
C10_Witness ==
    /\ Len(loads) = 1
    /\ lastApp.op = "details" /\ loads[1].details = "ok"
    /\ loads[1].image = "fail"
    /\ IsSome(error) /\ ~appIsLoading
    /\ IsSome(companyDetails) /\ companyImage = None

\* C11 as stated: every select starts a fresh load, also a select of the
\* entity that is already current: a load is added, loading is true and both
\* of its fetches are in flight.
C11_EverySelectStartsLoad ==
    [][ lastApp'.op = "select" =>
          /\ Len(loads') = Len(loads) + 1
          /\ appIsLoading'
          /\ LastOf(loads').company = selectedCompany'
          /\ LastOf(loads').details = "pending"
          /\ LastOf(loads').image = "pending" ]_vars

\* C11 amended: a select of an entity other than the current one starts a
\* fresh load (loading true, both fetches issued for the new entity); a
\* select of the entity that is already current starts no load and leaves
\* the selection state as it is.
C11_SelectOfOtherEntityStartsLoad ==
    [][ lastApp'.op = "select" =>
          IF selectedCompany' # selectedCompany
          THEN /\ Len(loads') = Len(loads) + 1
               /\ SubSeq(loads', 1, Len(loads)) = loads
               /\ appIsLoading'
               /\ LastOf(loads').company = selectedCompany'
               /\ LastOf(loads').details = "pending"
               /\ LastOf(loads').image = "pending"
          ELSE UNCHANGED <<loads, appIsLoading, error, companyDetails,
                           companyImage>> ]_vars

\* the entity whose only load has failed was selected again: no retry
C11_Witness ==
    /\ lastApp.op = "select" /\ ~lastApp.flag
    /\ Len(loads) = 1 /\ SettledLoad(1)
    /\ IsSome(error) /\ ~appIsLoading

\* C12: each load sets loading to false exactly once.  Its finally block
\* never runs twice, it has run once both of its fetches have settled (with
\* success or with failure), the step in which it runs leaves loading false,
\* and no other settling of the load's fetches touches loading.
C12_LoadingClearedOncePerLoad ==
    [][ \A l \in 1..Len(loads) :
          /\ loads'[l].cleared <= 1
          /\ (loads'[l].details # "pending" /\ loads'[l].image # "pending")
                => loads'[l].cleared = 1
          /\ loads'[l].cleared > loads[l].cleared => ~appIsLoading'
          /\ (FetchSettlesOf(l) /\ loads'[l].cleared = loads[l].cleared)
                => appIsLoading' = appIsLoading ]_vars

\* both fetches of the only load have failed: loading was cleared once, at
\* the first failure
C12_Witness ==
    /\ Len(loads) = 1
    /\ loads[1].details = "fail" /\ loads[1].image = "fail"
    /\ loads[1].cleared = 1 /\ ~appIsLoading /\ alerts = 1

\* C13: once both fetches of the latest load have settled, loading is false
\* and exactly one of (details and artifact path present, error absent) and
\* (error present) holds; when both fetches succeeded it is the first, and
\* details and artifact path are those fetched for the current entity.
C13_SettledStateIsLoadedOrFailed ==
    SettledLoad(Len(loads)) =>
        /\ ~appIsLoading
        /\ IsSome(error) \/ (IsSome(companyDetails) /\ IsSome(companyImage))
        /\ (LastOf(loads).details = "ok" /\ LastOf(loads).image = "ok") =>
              /\ error = None
              /\ companyDetails
                   = Some([source |-> DetailsUrl(selectedCompany)])
              /\ companyImage = Some(FileName(selectedCompany))

\* C14 (as stated): the join waits for both fetches to settle: a load whose
\* catch/finally has run (error set or isLoading cleared on its behalf) has
\* neither of its own two fetches still in flight.
C14_JoinWaitsForBoth ==
    \A l \in 1..Len(loads) : loads[l].cleared = 1 => SettledLoad(l)

\* the step settles a fetch of load l with a failure
FailsNow(l) ==
    \/ loads[l].details = "pending" /\ loads'[l].details = "fail"
    \/ loads[l].image = "pending" /\ loads'[l].image = "fail"

\* C14 (amended): Promise.all waits for both fetches only when both succeed.
\* A fetch settling for load l runs the load's catch/finally exactly when the
\* load has not joined yet and either this fetch failed (whether or not the
\* other one is still in flight) or both have now succeeded; the join clears
\* isLoading and, on a failure, sets error; a settle that does not join
\* leaves isLoading, error and the alerts alone.
C14_JoinWaitsOnlyOnSuccess ==
    [][ \A l \in 1..Len(loads) :
          FetchSettlesOf(l) =>
            /\ lastApp'.flag <=>
                 /\ ~loads[l].joined
                 /\ \/ FailsNow(l)
                    \/ loads'[l].details = "ok" /\ loads'[l].image = "ok"
            /\ lastApp'.flag =>
                 /\ ~appIsLoading'
                 /\ FailsNow(l) => IsSome(error') /\ alerts' = alerts + 1
                 /\ ~FailsNow(l) => error' = error /\ alerts' = alerts
            /\ ~lastApp'.flag => UNCHANGED <<appIsLoading, error, alerts>>
      ]_vars

\* C14 witness: the details fetch of the only load failed first; error is
\* set and isLoading cleared while the image download is still in flight.
C14_Witness ==
    /\ Len(loads) = 1
    /\ loads[1].details = "fail"
    /\ loads[1].image = "pending"
    /\ loads[1].cleared = 1
    /\ lastApp.op = "details" /\ lastApp.flag
    /\ ~appIsLoading
    /\ IsSome(error)

\* ======================================================================
\* The message log (explore.tsx)
\* ======================================================================

\* C15: starting from the log that holds only the welcome message (sender
\* bot), the log is append-only: every step leaves the earlier log as a
\* prefix of the new one, so no message is removed, reordered or changed,
\* and the welcome message stays first.
C15_LogAppendOnly ==
    [][ /\ IsPrefixOf(messages, messages')
        /\ messages'[1] = welcomeMessage
        /\ messages'[1].sender = "bot" ]_vars

\* C15 witness: two complete turns were appended behind the welcome message
C15_Witness ==
    /\ Len(messages) = 5
    /\ messages[1] = welcomeMessage
    /\ last.op = "settle"
    /\ messages[2].sender = "user"
    /\ messages[5].sender = "bot"

\* C16 (as stated): the messages of the log have pairwise distinct ids,
\* whatever non-decreasing Date.now() readings they were created at.
C16_IdsPairwiseDistinct ==
    \A i, j \in 1..Len(messages) :
        i # j => messages[i].id # messages[j].id

\* the log after the welcome message alternates user, bot, user, bot, ...
Alternates(msgs) ==
    \A k \in 2..Len(msgs) :
        msgs[k].sender = IF k % 2 = 0 THEN "user" ELSE "bot"

\* C17: turns never interleave.  After every step the log behind the
\* welcome message alternates user, bot, user, bot, ...; a trailing user
\* message without an answer occurs only while isLoading is true, and it is
\* the message of the one request in flight; and the step that handles a
\* settled request appends exactly one bot message directly behind the
\* user message that request carried.
C17_TurnsNeverInterleave ==
    [][ /\ Alternates(messages')
        /\ LastOf(messages').sender = "user" =>
             /\ isLoading'
             /\ Len(requests') = 1
             /\ requests'[1].message = LastOf(messages').message
        /\ SettleStep =>
             /\ Len(messages') = Len(messages) + 1
             /\ LastOf(messages').sender = "bot"
             /\ LastOf(messages).sender = "user"
             /\ \E i \in 1..Len(requests) :
                  requests[i].message = LastOf(messages).message
      ]_vars

\* C17 witness: a second turn is waiting for its answer and a submit
\* pressed meanwhile was turned away
C17_Witness ==
    /\ Len(messages) = 4
    /\ messages[4].sender = "user"
    /\ isLoading
    /\ last.op = "send" /\ ~last.accepted

\* ======================================================================
\* What a load fetches (index.tsx)
\* ======================================================================

\* every entry of COMPANIES in the source, as a set
AllCompanySet == { AllCompanies[k] : k \in 1..Len(AllCompanies) }

\* C18: both fetches of a load target one symbol, the company that was
\* selected when the load started: its details URL, its image URL and its
\* cache file are all built from that symbol, the load in progress is the
\* one of the selected company, what a fetch stores is what that symbol
\* names, and no two symbols share a cache file.
C18_OneSymbolPerLoad ==
    /\ \A l \in 1..Len(loads) :
         LET c == loads[l].company IN
         /\ c \in Company
         /\ loads[l].detailsUrl = API_BASE_URL \o "/stockDetails/" \o c
         /\ loads[l].imageUrl = API_BASE_URL \o "/stockGraph/" \o c
         /\ loads[l].fileName = cacheDirectory \o c \o ".jpg"
    /\ LastOf(loads).company = selectedCompany
    /\ IsSome(companyDetails) =>
         \E l \in 1..Len(loads) :
             loads[l].details = "ok"
             /\ Get(companyDetails).source = loads[l].detailsUrl
    /\ IsSome(companyImage) =>
         \E l \in 1..Len(loads) :
             loads[l].image = "ok" /\ Get(companyImage) = loads[l].fileName
    /\ \A a, b \in AllCompanySet : a # b => FileName(a) # FileName(b)
    /\ \A l, k \in 1..Len(loads) :
         loads[l].company # loads[k].company
             => loads[l].fileName # loads[k].fileName

\* C18 witness: two loads for two companies, the later one has stored its
\* details and its image
C18_Witness ==
    /\ Len(loads) = 2
    /\ loads[1].company # loads[2].company
    /\ loads[2].details = "ok" /\ loads[2].image = "ok"
    /\ companyImage = Some(loads[2].fileName)
    /\ Get(companyDetails).source = loads[2].detailsUrl

\* a fetch of the load started by the most recent select is in flight
LatestInFlight ==
    LastOf(loads).details = "pending" \/ LastOf(loads).image = "pending"

\* what App renders (index.tsx:189-205): the spinner while isLoading, the
\* error text when error is set, the details and the image otherwise
View ==
    IF appIsLoading THEN "loading"
    ELSE IF IsSome(error) THEN "error" ELSE "result"

\* C19 (as stated): while a fetch of the load started by the most recent
\* select is in flight, the view is never in the not-loading, no-error
\* state in which details and image are displayed.
C19_NoResultViewWhileFetching ==
    LatestInFlight => View # "result"

\* C20 (as stated): every message of the log has non-empty text, the bot
\* message of the success path included, for any returned text that passes
\* the validity check.
C20_EveryMessageHasText ==
    \A k \in 1..Len(messages) : messages[k].message # <<>>

====
